---- MODULE Spec2Model ----
(***************************************************************************)
(* Model of elevator.py: the Elevator state machine (Idle, Moving,         *)
(* Loading), its direction-selection algorithm, the events the explorer    *)
(* of Simulator.simulate delivers, and the scripted scenario of            *)
(* pickup_at_multiple_floors.                                              *)
(***************************************************************************)
EXTENDS Integers, Sequences, FiniteSets, TLC

\* Elevator._MIN_FLOOR, Elevator._MAX_FLOOR
MIN_FLOOR == 1
MAX_FLOOR == 5

\* Cap on the floors recorded at once (destinations plus requests): a button
\* is pressed only while fewer are recorded.
MaxPending == 4
\* The same cap where events also carry floors outside the shaft.
MaxPendingAny == 2

Floors == MIN_FLOOR..MAX_FLOOR
\* the floors of the shaft, one below and one above
AnyFloors == (MIN_FLOOR - 1)..(MAX_FLOOR + 1)

\* enum Direction, enum DoorMotion
NONE == "NONE"
UP == "UP"
DOWN == "DOWN"
OPEN == "OPEN"
CLOSE == "CLOSE"
Direction == {NONE, UP, DOWN}

\* ControlOutput variants
HoistMotor(direction) == <<"HoistMotor", direction>>
DoorMotor(motion) == <<"DoorMotor", motion>>
StopMotor == <<"StopMotor", NONE>>
SetTimer == <<"SetTimer", NONE>>

\* Event variants
DestinationFloorSelected(destination_floor) ==
    [type |-> "DestinationFloorSelected", floor |-> destination_floor, direction |-> NONE]
RequestButtonPressed(floor, direction) ==
    [type |-> "RequestButtonPressed", floor |-> floor, direction |-> direction]
ReachedFloor(floor) ==
    [type |-> "ReachedFloor", floor |-> floor, direction |-> NONE]
TimerExpired ==
    [type |-> "TimerExpired", floor |-> 0, direction |-> NONE]
NoEvent ==
    [type |-> "NoEvent", floor |-> 0, direction |-> NONE]

VARIABLES
    state,            \* Elevator._state: "Idle", "Moving" or "Loading"
    current_floor,    \* Elevator._current_floor
    going_direction,  \* Elevator._going_direction
    destinations,     \* Elevator._destinations
    up_requests,      \* Elevator._up_requests
    down_requests,    \* Elevator._down_requests
    old_direction,    \* the direction before the last recomputation
    event,            \* the event handled last
    control_output,   \* the outputs handed to the sink for the last event
    err,              \* how the last handle_event ended: "none" or the error raised
    run_pos,          \* Simulator.run: scenario events consumed so far, -1 off the scenario
    door,             \* what the door motor was last told: "open" or "closed"
    motor,            \* what the hoist motor was last told: "running" or "stopped"
    to_check,         \* Simulator.simulate: the queue of configurations to expand
    seen,             \* Simulator.simulate: the configurations already queued
    validated,        \* the configurations simulate has taken off the queue so far
    skipped           \* how often do_it() withheld TimerExpired from a Loading node

vars == <<state, current_floor, going_direction, destinations, up_requests,
          down_requests, old_direction, event, control_output, err, run_pos,
          door, motor, to_check, seen, validated, skipped>>

\* The elevator's data as one record, as the handlers see and mutate it.
Elev ==
    [state |-> state, current_floor |-> current_floor,
     going_direction |-> going_direction, destinations |-> destinations,
     up_requests |-> up_requests, down_requests |-> down_requests,
     old_direction |-> old_direction, control_output |-> <<>>, err |-> "none"]

Pending(e) == e.destinations \cup e.up_requests \cup e.down_requests

\* Elevator._as_tuple: what __eq__ and __hash__ compare
as_tuple(e) ==
    [state |-> e.state, current_floor |-> e.current_floor,
     going_direction |-> e.going_direction, destinations |-> e.destinations,
     up_requests |-> e.up_requests, down_requests |-> e.down_requests]

\* the exploration of Simulator.simulate before its first iteration
search_start ==
    /\ to_check = <<[state |-> "Idle", current_floor |-> 1, going_direction |-> NONE,
                     destinations |-> {}, up_requests |-> {}, down_requests |-> {}]>>
    /\ seen = {}
    /\ validated = {}
    /\ skipped = 0

----------------------------------------------------------------------------
\* Elevator core

\* the number of floors of floor_set that are >= the current floor
count_higher_floors(e, floor_set) ==
    Cardinality({floor \in floor_set : floor >= e.current_floor})

\* the number of floors of floor_set that are <= the current floor
count_lower_floors(e, floor_set) ==
    Cardinality({floor \in floor_set : floor <= e.current_floor})

get_direction_with_floor_set_tie_up(e, floor_set) ==
    IF count_higher_floors(e, floor_set) >= Cardinality(floor_set) - Cardinality(floor_set) \div 2
    THEN UP ELSE DOWN

get_direction_with_floor_set(e, floor_set) ==
    IF count_higher_floors(e, floor_set) > Cardinality(floor_set) \div 2
    THEN UP ELSE DOWN

\* _update_direction starting from rest: the majority of the destinations,
\* or of the requests when there is no destination
from_rest_direction(e) ==
    IF e.destinations # {}
    THEN get_direction_with_floor_set(e, e.destinations)
    ELSE get_direction_with_floor_set(e, e.up_requests \cup e.down_requests)

going_up_direction_dest_only(e) ==
    IF count_higher_floors(e, e.destinations) > 0 THEN UP ELSE DOWN

\* _update_direction going up: keep going up unless there is no need to
going_up_direction(e) ==
    IF count_higher_floors(e, e.destinations) > 0 THEN UP
    ELSE IF count_higher_floors(e, e.up_requests \cup e.down_requests) > 0 THEN UP
    ELSE DOWN

\* _update_direction going down: keep going down unless there is no need to
going_down_direction(e) ==
    IF count_lower_floors(e, e.destinations) > 0 THEN DOWN
    ELSE IF count_lower_floors(e, e.up_requests \cup e.down_requests) > 0 THEN DOWN
    ELSE UP

next_direction_no_boundary(e) ==
    IF Pending(e) = {} THEN NONE
    ELSE IF e.going_direction = NONE THEN from_rest_direction(e)
    ELSE IF e.going_direction = UP THEN going_up_direction(e)
    ELSE going_down_direction(e)

next_direction_dest_only(e) ==
    IF e.destinations = {} THEN NONE
    ELSE IF e.current_floor = MIN_FLOOR THEN UP
    ELSE IF e.current_floor = MAX_FLOOR THEN DOWN
    ELSE IF e.going_direction = NONE THEN from_rest_direction(e)
    ELSE IF e.going_direction = UP THEN going_up_direction(e)
    ELSE going_down_direction(e)

\* the value _update_direction computes for next_direction
next_direction(e) ==
    IF Pending(e) = {} THEN NONE
    ELSE IF e.current_floor = MIN_FLOOR THEN UP
    ELSE IF e.current_floor = MAX_FLOOR THEN DOWN
    ELSE IF e.going_direction = NONE THEN from_rest_direction(e)
    ELSE IF e.going_direction = UP THEN going_up_direction(e)
    ELSE going_down_direction(e)

update_direction_not_stored(e) ==
    [e EXCEPT !.old_direction = e.going_direction]

update_direction(e) ==
    [e EXCEPT !.old_direction = e.going_direction,
              !.going_direction = next_direction(e)]

serve_floor_against_direction(e, floor) ==
    LET in_dest == floor \in e.destinations
        in_up == floor \in e.up_requests /\ e.going_direction = DOWN
        in_down == floor \in e.down_requests /\ e.going_direction = UP
        e1 == [e EXCEPT
                 !.destinations = IF in_dest THEN @ \ {floor} ELSE @,
                 !.up_requests = IF in_up THEN @ \ {floor} ELSE @,
                 !.down_requests = IF in_down THEN @ \ {floor} ELSE @]
    IN <<update_direction(e1), in_dest \/ in_up \/ in_down>>

serve_floor_no_update(e, floor) ==
    LET in_dest == floor \in e.destinations
        in_up == floor \in e.up_requests /\ e.going_direction = UP
        in_down == floor \in e.down_requests /\ e.going_direction = DOWN
        e1 == [e EXCEPT
                 !.destinations = IF in_dest THEN @ \ {floor} ELSE @,
                 !.up_requests = IF in_up THEN @ \ {floor} ELSE @,
                 !.down_requests = IF in_down THEN @ \ {floor} ELSE @]
    IN <<e1, in_dest \/ in_up \/ in_down>>

serve_floor_any_direction(e, floor) ==
    LET in_dest == floor \in e.destinations
        in_up == floor \in e.up_requests
        in_down == floor \in e.down_requests
        e1 == [e EXCEPT
                 !.destinations = IF in_dest THEN @ \ {floor} ELSE @,
                 !.up_requests = IF in_up THEN @ \ {floor} ELSE @,
                 !.down_requests = IF in_down THEN @ \ {floor} ELSE @]
    IN <<update_direction(e1), in_dest \/ in_up \/ in_down>>

\* reach_floor after its assertions: drop off, pick up along the direction,
\* recompute the direction; <<elevator, result>>
serve_floor(e, floor) ==
    LET in_dest == floor \in e.destinations
        in_up == floor \in e.up_requests /\ e.going_direction = UP
        in_down == floor \in e.down_requests /\ e.going_direction = DOWN
        e1 == [e EXCEPT
                 !.destinations = IF in_dest THEN @ \ {floor} ELSE @,
                 !.up_requests = IF in_up THEN @ \ {floor} ELSE @,
                 !.down_requests = IF in_down THEN @ \ {floor} ELSE @]
    IN <<update_direction(e1), in_dest \/ in_up \/ in_down>>

\* the pair <<elevator after the call, return value>>; an assertion that fails
\* leaves what was assigned before it and sets err
reach_floor(e, floor) ==
    IF ~(floor >= MIN_FLOOR /\ floor <= MAX_FLOOR)
    THEN <<[e EXCEPT !.err = "AssertionError: floor out of range"], FALSE>>
    ELSE IF e.going_direction = NONE
    THEN <<[e EXCEPT !.err = "AssertionError: going_direction is NONE"], FALSE>>
    ELSE LET previous_floor == e.current_floor
             e1 == [e EXCEPT !.current_floor = floor]
             dist == IF previous_floor >= floor THEN previous_floor - floor
                     ELSE floor - previous_floor
         IN IF dist # 1
            THEN <<[e1 EXCEPT !.err = "AssertionError: not one floor away"], FALSE>>
            ELSE serve_floor(e1, floor)

close_door_dest_only(e) ==
    LET e1 == update_direction(e)
    IN <<e1, e1.destinations # {}>>

close_door(e) ==
    LET e1 == update_direction(e)
    IN <<e1, e1.going_direction # NONE>>

receive_request_unchecked(e, request) ==
    IF request.direction = UP
    THEN update_direction([e EXCEPT !.up_requests = @ \cup {request.floor}])
    ELSE update_direction([e EXCEPT !.down_requests = @ \cup {request.floor}])

receive_request(e, request) ==
    IF request.floor = MIN_FLOOR /\ request.direction = DOWN
    THEN [e EXCEPT !.err = "AssertionError: down request at MIN_FLOOR"]
    ELSE IF request.floor = MAX_FLOOR /\ request.direction = UP
    THEN [e EXCEPT !.err = "AssertionError: up request at MAX_FLOOR"]
    ELSE IF request.direction = UP
    THEN update_direction([e EXCEPT !.up_requests = @ \cup {request.floor}])
    ELSE update_direction([e EXCEPT !.down_requests = @ \cup {request.floor}])

receive_destination_from_rest(e, floor) ==
    update_direction([e EXCEPT !.destinations = @ \cup {floor},
                               !.going_direction = NONE])

receive_destination(e, floor) ==
    update_direction([e EXCEPT !.destinations = @ \cup {floor}])

----------------------------------------------------------------------------
\* State handlers: the elevator after State.handle_event, with the next state
\* in .state and the HandleEventResult's outputs in .control_output; on an
\* error (.err # "none") no HandleEventResult is returned.

HandleEventResult(e, next_state, outputs) ==
    IF e.err # "none" THEN e
    ELSE [e EXCEPT !.state = next_state, !.control_output = outputs]

unsupported_event_ignored(e) == e

unsupported_event(e) == [e EXCEPT !.err = "RuntimeError: Unsupported event"]

Idle_handle_event_stale_direction(e, ev) ==
    IF e.destinations # {}
    THEN [e EXCEPT !.err = "AssertionError: Idle with destinations"]
    ELSE IF e.going_direction # NONE
    THEN [e EXCEPT !.err = "AssertionError: Idle with a direction"]
    ELSE IF ev.type = "RequestButtonPressed" THEN
        IF ev.floor = e.current_floor
        THEN HandleEventResult(e, "Loading", <<SetTimer>>)
        ELSE HandleEventResult(receive_request(e, ev), "Moving",
                               <<HoistMotor(e.going_direction)>>)
    ELSE IF ev.type = "DestinationFloorSelected" THEN
        IF ev.floor = e.current_floor
        THEN HandleEventResult(e, "Loading", <<DoorMotor(OPEN), SetTimer>>)
        ELSE HandleEventResult(receive_destination(e, ev.floor), "Moving",
                               <<HoistMotor(e.going_direction)>>)
    ELSE unsupported_event(e)

Idle_handle_event(e, ev) ==
    IF e.destinations # {}
    THEN [e EXCEPT !.err = "AssertionError: Idle with destinations"]
    ELSE IF e.going_direction # NONE
    THEN [e EXCEPT !.err = "AssertionError: Idle with a direction"]
    ELSE IF ev.type = "RequestButtonPressed" THEN
        IF ev.floor = e.current_floor
        THEN HandleEventResult(e, "Loading", <<SetTimer>>)
        ELSE LET e1 == receive_request(e, ev)
             IN HandleEventResult(e1, "Moving", <<HoistMotor(e1.going_direction)>>)
    ELSE IF ev.type = "DestinationFloorSelected" THEN
        IF ev.floor = e.current_floor
        THEN HandleEventResult(e, "Loading", <<DoorMotor(OPEN), SetTimer>>)
        ELSE LET e1 == receive_destination(e, ev.floor)
             IN HandleEventResult(e1, "Moving", <<HoistMotor(e1.going_direction)>>)
    ELSE unsupported_event(e)

Moving_handle_event_open_before_stop(e, ev) ==
    IF ev.type = "ReachedFloor" THEN
        LET r == reach_floor(e, ev.floor)
        IN IF r[2]
           THEN HandleEventResult(r[1], "Loading", <<DoorMotor(OPEN), StopMotor, SetTimer>>)
           ELSE HandleEventResult(r[1], "Moving", <<HoistMotor(r[1].going_direction)>>)
    ELSE IF ev.type = "DestinationFloorSelected" THEN
        LET e1 == receive_destination(e, ev.floor)
        IN HandleEventResult(e1, "Moving", <<HoistMotor(e1.going_direction)>>)
    ELSE IF ev.type = "RequestButtonPressed" THEN
        LET e1 == receive_request(e, ev)
        IN HandleEventResult(e1, "Moving", <<HoistMotor(e1.going_direction)>>)
    ELSE unsupported_event(e)

Moving_handle_event(e, ev) ==
    IF ev.type = "ReachedFloor" THEN
        LET r == reach_floor(e, ev.floor)
            need_to_open_door == r[2]
        IN IF need_to_open_door
           THEN HandleEventResult(r[1], "Loading", <<StopMotor, DoorMotor(OPEN), SetTimer>>)
           ELSE HandleEventResult(r[1], "Moving", <<HoistMotor(r[1].going_direction)>>)
    ELSE IF ev.type = "DestinationFloorSelected" THEN
        LET e1 == receive_destination(e, ev.floor)
        IN HandleEventResult(e1, "Moving", <<HoistMotor(e1.going_direction)>>)
    ELSE IF ev.type = "RequestButtonPressed" THEN
        LET e1 == receive_request(e, ev)
        IN HandleEventResult(e1, "Moving", <<HoistMotor(e1.going_direction)>>)
    ELSE unsupported_event(e)

Loading_handle_event_no_hoist(e, ev) ==
    IF ev.type = "DestinationFloorSelected" THEN
        IF ev.floor = e.current_floor
        THEN HandleEventResult(e, "Loading", <<>>)
        ELSE HandleEventResult(receive_destination(e, ev.floor), "Loading", <<>>)
    ELSE IF ev.type = "RequestButtonPressed" THEN
        HandleEventResult(receive_request(e, ev), "Loading", <<>>)
    ELSE IF ev.type = "TimerExpired" THEN
        LET r == close_door(e)
        IN IF r[2]
           THEN HandleEventResult(r[1], "Moving", <<DoorMotor(CLOSE)>>)
           ELSE HandleEventResult(r[1], "Idle", <<DoorMotor(CLOSE)>>)
    ELSE unsupported_event(e)

Loading_handle_event(e, ev) ==
    IF ev.type = "DestinationFloorSelected" THEN
        IF ev.floor = e.current_floor
        THEN HandleEventResult(e, "Loading", <<>>)
        ELSE HandleEventResult(receive_destination(e, ev.floor), "Loading", <<>>)
    ELSE IF ev.type = "RequestButtonPressed" THEN
        HandleEventResult(receive_request(e, ev), "Loading", <<>>)
    ELSE IF ev.type = "TimerExpired" THEN
        LET r == close_door(e)
            need_to_move == r[2]
        IN IF need_to_move
           THEN HandleEventResult(r[1], "Moving",
                    <<DoorMotor(CLOSE), HoistMotor(r[1].going_direction)>>)
           ELSE HandleEventResult(r[1], "Idle", <<DoorMotor(CLOSE)>>)
    ELSE unsupported_event(e)

\* ElevatorControl.handle_control_output: TRUE when no command fails its assertion
handle_control_output(commands) ==
    \A i \in 1..Len(commands) :
        /\ commands[i][1] = "HoistMotor" => commands[i][2] # NONE
        /\ commands[i][1] = "DoorMotor" => commands[i][2] # NONE

\* the commands the sink's loop gets through: all of them, or those before the
\* first one that fails its assertion
handled_commands(commands) ==
    LET failing == {i \in 1..Len(commands) :
                       /\ commands[i][1] \in {"HoistMotor", "DoorMotor"}
                       /\ commands[i][2] = NONE}
    IN IF failing = {} THEN commands
       ELSE SubSeq(commands, 1, (CHOOSE i \in failing : \A j \in failing : i <= j) - 1)

\* the door after the sink ran the commands in order ("Door motion ...")
door_after(d, commands) ==
    LET at == {i \in 1..Len(commands) : commands[i][1] = "DoorMotor"}
        last == CHOOSE i \in at : \A j \in at : j <= i
    IN IF at = {} THEN d
       ELSE IF commands[last][2] = OPEN THEN "open" ELSE "closed"

\* the hoist motor after the sink ran the commands in order ("Running motor
\* ...", "Stop motor")
motor_after(m, commands) ==
    LET at == {i \in 1..Len(commands) : commands[i][1] \in {"HoistMotor", "StopMotor"}}
        last == CHOOSE i \in at : \A j \in at : j <= i
    IN IF at = {} THEN m
       ELSE IF commands[last][1] = "HoistMotor" THEN "running" ELSE "stopped"

\* Elevator.handle_event: dispatch to the state, set the state, feed the sink
Elevator_handle_event(e, ev) ==
    LET result == IF e.state = "Idle" THEN Idle_handle_event(e, ev)
                  ELSE IF e.state = "Moving" THEN Moving_handle_event(e, ev)
                  ELSE Loading_handle_event(e, ev)
    IN IF result.err # "none" THEN result
       ELSE IF ~handle_control_output(result.control_output)
       THEN [result EXCEPT !.err = "AssertionError: control output NONE"]
       ELSE result

----------------------------------------------------------------------------
\* Simulator.run on the events of pickup_at_multiple_floors

events ==
    << <<RequestButtonPressed(2, UP), "Moving", 1>>,
       <<ReachedFloor(2), "Loading", 2>>,
       <<TimerExpired, "Idle", 2>>,
       <<DestinationFloorSelected(5), "Moving", 2>>,
       <<RequestButtonPressed(4, UP), "Moving", 2>>,
       <<ReachedFloor(3), "Moving", 3>>,
       <<ReachedFloor(4), "Loading", 4>>,
       <<TimerExpired, "Moving", 4>>,
       <<DestinationFloorSelected(5), "Moving", 4>>,
       <<ReachedFloor(5), "Loading", 5>>,
       <<TimerExpired, "Idle", 5>> >>

\* the position in the scenario after handling ev
run(pos, ev) ==
    IF pos >= 0 /\ pos < Len(events) /\ events[pos + 1][1] = ev
    THEN pos + 1 ELSE -1

----------------------------------------------------------------------------
\* Elevator(1, control)
Init ==
    /\ state = "Idle"
    /\ current_floor = 1
    /\ going_direction = NONE
    /\ destinations = {}
    /\ up_requests = {}
    /\ down_requests = {}
    /\ old_direction = NONE
    /\ event = NoEvent
    /\ control_output = <<>>
    /\ err = "none"
    /\ run_pos = 0
    /\ door = "closed"
    /\ motor = "stopped"
    /\ search_start

\* one call of Elevator.handle_event(ev)
Handle(ev) ==
    \E e \in {Elevator_handle_event(Elev, ev)} :
       /\ state' = e.state
       /\ current_floor' = e.current_floor
       /\ going_direction' = e.going_direction
       /\ destinations' = e.destinations
       /\ up_requests' = e.up_requests
       /\ down_requests' = e.down_requests
       /\ old_direction' = e.old_direction
       /\ event' = ev
       /\ control_output' = e.control_output
       /\ err' = e.err
       /\ run_pos' = run(run_pos, ev)
       /\ door' = door_after(door, handled_commands(e.control_output))
       /\ motor' = motor_after(motor, handled_commands(e.control_output))
       /\ UNCHANGED <<to_check, seen, validated, skipped>>

Room(cap) ==
    Cardinality(destinations) + Cardinality(up_requests)
        + Cardinality(down_requests) < cap

\* get_next_elevator: the events the explorer applies to elevator e
destination_events == {DestinationFloorSelected(floor) : floor \in MIN_FLOOR..MAX_FLOOR}

up_events == {RequestButtonPressed(floor, UP) : floor \in MIN_FLOOR..(MAX_FLOOR - 1)}

down_events == {RequestButtonPressed(floor, DOWN) : floor \in (MIN_FLOOR + 1)..MAX_FLOOR}

motion_events(e) ==
    (IF e.state = "Moving" /\ e.going_direction = UP
     THEN {ReachedFloor(e.current_floor + 1)} ELSE {})
    \cup (IF e.state = "Moving" /\ e.going_direction = DOWN
          THEN {ReachedFloor(e.current_floor - 1)} ELSE {})

\* the outcomes of do_it(): TRUE when random.choice([0, 1]) is 0
do_it == {TRUE, FALSE}

\* TimerExpired is applied to a Loading elevator only when the coin says so
door_close_events(e, coin) ==
    IF e.state = "Loading" /\ coin THEN {TimerExpired} ELSE {}

\* every event get_next_elevator applies to a copy of e
explorer_events(e, coin) ==
    destination_events \cup up_events \cup down_events
        \cup motion_events(e) \cup door_close_events(e, coin)

\* next_elev: the successors get_next_elevator collects (an event that raises
\* aborts the search instead and adds none)
get_next_elevator(e, coin) ==
    {n \in {Elevator_handle_event(e, ev) : ev \in explorer_events(e, coin)} :
        n.err = "none"}

PressDestination ==
    /\ Room(MaxPending)
    /\ \E ev \in destination_events : Handle(ev)

PressUp ==
    /\ Room(MaxPending)
    /\ \E ev \in up_events : Handle(ev)

PressDown ==
    /\ Room(MaxPending)
    /\ \E ev \in down_events : Handle(ev)

MoveUp ==
    /\ state = "Moving"
    /\ going_direction = UP
    /\ \E ev \in motion_events(Elev) : Handle(ev)

MoveDown ==
    /\ state = "Moving"
    /\ going_direction = DOWN
    /\ \E ev \in motion_events(Elev) : Handle(ev)

DoorClose ==
    /\ \E coin \in do_it : \E ev \in door_close_events(Elev, coin) : Handle(ev)

Next ==
    \/ PressDestination
    \/ PressUp
    \/ PressDown
    \/ MoveUp
    \/ MoveDown
    \/ DoorClose

Spec == Init /\ [][Next]_vars

----------------------------------------------------------------------------
\* Elevator.handle_event under any caller: every event type in every state,
\* with floors drawn from floor_set; an event that raises leaves the elevator
\* as the handler left it, and later events are handled from there.

AnyDestination(floor_set, cap) ==
    /\ Room(cap)
    /\ \E floor \in floor_set : Handle(DestinationFloorSelected(floor))

AnyRequest(floor_set, cap) ==
    /\ Room(cap)
    /\ \E floor \in floor_set, direction \in {UP, DOWN} :
           Handle(RequestButtonPressed(floor, direction))

AnyReached(floor_set) ==
    \E floor \in floor_set : Handle(ReachedFloor(floor))

AnyTimer == Handle(TimerExpired)

NextInRange ==
    \/ AnyDestination(Floors, MaxPending)
    \/ AnyRequest(Floors, MaxPending)
    \/ AnyReached(Floors)
    \/ AnyTimer

SpecInRange == Init /\ [][NextInRange]_vars

NextAny ==
    \/ AnyDestination(AnyFloors, MaxPendingAny)
    \/ AnyRequest(AnyFloors, MaxPendingAny)
    \/ AnyReached(AnyFloors)
    \/ AnyTimer

SpecAny == Init /\ [][NextAny]_vars

----------------------------------------------------------------------------
\* Properties

\* C1: in every configuration the explorer's events reach, the car at
\* MIN_FLOOR is not going DOWN and the car at MAX_FLOOR is not going UP.
C1_BoundaryDirection ==
    /\ current_floor = MIN_FLOOR => going_direction # DOWN
    /\ current_floor = MAX_FLOOR => going_direction # UP

\* a down-request recorded at the top floor while the car loads there at rest:
\* the only floor recorded counts as "higher", and the car is still sent DOWN
C1_Witness ==
    /\ event = RequestButtonPressed(MAX_FLOOR, DOWN)
    /\ err = "none"
    /\ state = "Loading"
    /\ current_floor = MAX_FLOOR
    /\ old_direction = NONE
    /\ going_direction = DOWN
    /\ Pending(Elev) = {MAX_FLOOR}

\* C2: Idle closure: whenever the state is Idle, destinations, up_requests and
\* down_requests are empty and going_direction is NONE.
C2_IdleClosure ==
    state = "Idle" =>
        /\ destinations = {}
        /\ up_requests = {}
        /\ down_requests = {}
        /\ going_direction = NONE

\* Idle was entered from Loading by TimerExpired, away from the start floor
C2_Witness ==
    /\ state = "Idle"
    /\ event = TimerExpired
    /\ err = "none"
    /\ current_floor # MIN_FLOOR

\* C3: no deadlock: in every reachable configuration at least one of the
\* events the explorer enumerates is handled without an error, so next_elev
\* is never empty.
C3_NoDeadlock == \A coin \in do_it : get_next_elevator(Elev, coin) # {}

\* a Moving configuration one of whose legal events is the step to the next floor
C3_Witness ==
    /\ state = "Moving"
    /\ \E n \in get_next_elevator(Elev, TRUE) : n.current_floor # current_floor

C5_BoundaryRequestRejected ==
    event \in {RequestButtonPressed(MIN_FLOOR, DOWN), RequestButtonPressed(MAX_FLOOR, UP)}
        => err # "none"

\* C6: every DestinationFloorSelected, RequestButtonPressed or ReachedFloor
\* whose floor lies outside [MIN_FLOOR, MAX_FLOOR] is rejected, and no such
\* floor is ever in destinations, up_requests or down_requests.
C6_OutOfRangeRejected ==
    /\ (/\ event.type \in {"DestinationFloorSelected", "RequestButtonPressed",
                           "ReachedFloor"}
        /\ event.floor \notin Floors) => err # "none"
    /\ Pending(Elev) \subseteq Floors

\* C7: HoistMotor is only emitted with direction UP or DOWN: every Moving
\* configuration has a direction, and every HoistMotor handed to the sink
\* carries a direction other than NONE, so the sink's assertion holds.
C7_HoistMotorHasDirection ==
    /\ state = "Moving" => going_direction # NONE
    /\ \A i \in 1..Len(control_output) :
          control_output[i][1] = "HoistMotor" => control_output[i][2] \in {UP, DOWN}
    /\ err # "AssertionError: control output NONE"

\* the car left Idle for a request below it and the motor was told DOWN
C7_Witness ==
    /\ state = "Moving"
    /\ event.type = "RequestButtonPressed"
    /\ old_direction = NONE
    /\ control_output = <<HoistMotor(DOWN)>>

\* C8: MIN_FLOOR is never in down_requests and MAX_FLOOR never in up_requests,
\* whatever events were handled, accepted or rejected.
C8_NoBoundaryRequestRecorded ==
    /\ MIN_FLOOR \notin down_requests
    /\ MAX_FLOOR \notin up_requests

\* a down-request at MIN_FLOOR was pressed while the car was moving, and failed
C8_Witness ==
    /\ event = RequestButtonPressed(MIN_FLOOR, DOWN)
    /\ state = "Moving"
    /\ err = "AssertionError: down request at MIN_FLOOR"

\* C9: door timing: TimerExpired in Loading gives Moving with outputs
\* [DoorMotor(CLOSE), HoistMotor(dir)] exactly when a destination or request
\* is recorded, and Idle with [DoorMotor(CLOSE)] otherwise; never Loading.
C9_DoorTiming ==
    [][(state = "Loading" /\ event' = TimerExpired) =>
          /\ err' = "none"
          /\ state' # "Loading"
          /\ Pending(Elev) # {} =>
                /\ state' = "Moving"
                /\ control_output' = <<DoorMotor(CLOSE), HoistMotor(going_direction')>>
          /\ Pending(Elev) = {} =>
                /\ state' = "Idle"
                /\ control_output' = <<DoorMotor(CLOSE)>>]_vars

\* the timer expired with only requests recorded and the car moved on
C9_Witness ==
    /\ event = TimerExpired
    /\ err = "none"
    /\ state = "Moving"
    /\ destinations = {}
    /\ control_output = <<DoorMotor(CLOSE), HoistMotor(going_direction)>>

\* C10: along the events of pickup_at_multiple_floors from (Idle, floor 1),
\* after each event the state and the floor are the pair the scenario lists.
C10_PickupScenario ==
    run_pos \in 1..Len(events) =>
        /\ err = "none"
        /\ state = events[run_pos][2]
        /\ current_floor = events[run_pos][3]

\* the whole scenario was run
C10_Witness == run_pos = Len(events)

\* C11: an event type the current state does not handle (TimerExpired in Idle
\* or Moving, ReachedFloor in Idle or Loading) fails with the unsupported-event
\* error, leaves state, current_floor, going_direction, destinations,
\* up_requests and down_requests unchanged and emits no control output.
C11_UnsupportedEvent ==
    [][(\/ state \in {"Idle", "Moving"} /\ event'.type = "TimerExpired"
        \/ state \in {"Idle", "Loading"} /\ event'.type = "ReachedFloor") =>
          /\ err' = "RuntimeError: Unsupported event"
          /\ UNCHANGED <<state, current_floor, going_direction, destinations,
                         up_requests, down_requests>>
          /\ control_output' = <<>>
          /\ UNCHANGED <<door, motor>>]_vars

\* ReachedFloor was delivered to a car loading with work recorded, and failed
C11_Witness ==
    /\ event.type = "ReachedFloor"
    /\ state = "Loading"
    /\ destinations # {}
    /\ err = "RuntimeError: Unsupported event"

\* The explorer's events with the scheduling of the shaft and the timer: a
\* moving car keeps reaching the next floor and an armed timer expires.
FairSpec ==
    /\ Init /\ [][Next]_vars
    /\ WF_vars(MoveUp) /\ WF_vars(MoveDown) /\ WF_vars(DoorClose)

\* a destination or request button is pressed
ButtonPressed ==
    event'.type \in {"DestinationFloorSelected", "RequestButtonPressed"}

\* C12: if from some point on no button is pressed, while ReachedFloor and
\* TimerExpired keep being delivered, the elevator ends up Idle: everything
\* recorded, an up-request at MIN_FLOOR or a down-request at MAX_FLOOR
\* included, is eventually removed.
C12_EventuallyIdle ==
    <>[][~ButtonPressed]_vars => <>[](state = "Idle")

\* a step in which the handler recomputed the direction: the event was
\* accepted and was not one of the two that touch nothing (a button for the
\* current floor in Idle, the current floor's destination button in Loading)
Recomputed ==
    /\ err' = "none"
    /\ ~(state = "Idle" /\ event'.floor = current_floor)
    /\ ~(/\ state = "Loading" /\ event'.type = "DestinationFloorSelected"
         /\ event'.floor = current_floor)

\* C13: recomputing at a floor that is neither MIN_FLOOR nor MAX_FLOOR, with
\* something recorded and the direction UP, gives UP if and only if some
\* destination or request lies strictly above current_floor and DOWN otherwise;
\* symmetrically for DOWN and floors strictly below.
C13_KeepDirectionStrict ==
    [][(/\ Recomputed
        /\ current_floor' \notin {MIN_FLOOR, MAX_FLOOR}
        /\ destinations' \cup up_requests' \cup down_requests' # {}) =>
          /\ going_direction = UP =>
                going_direction' =
                    IF \E floor \in destinations' \cup up_requests' \cup down_requests' :
                           floor > current_floor'
                    THEN UP ELSE DOWN
          /\ going_direction = DOWN =>
                going_direction' =
                    IF \E floor \in destinations' \cup up_requests' \cup down_requests' :
                           floor < current_floor'
                    THEN DOWN ELSE UP]_vars

\* C14: Moving + ReachedFloor(f), f one floor on in the travel direction:
\* current_floor becomes f; f leaves destinations, leaves up_requests only when
\* the direction before the recomputation is UP and down_requests only when it
\* is DOWN; nothing else is removed; the car goes to Loading with
\* [StopMotor, DoorMotor(OPEN), SetTimer] exactly when something was removed, and
\* stays Moving with [HoistMotor(recomputed direction)] otherwise.
C14_ReachedFloor ==
    [][(state = "Moving" /\ event'.type = "ReachedFloor") =>
          LET f == event'.floor
              removed == \/ f \in destinations
                         \/ f \in up_requests /\ going_direction = UP
                         \/ f \in down_requests /\ going_direction = DOWN
          IN /\ err' = "none"
             /\ current_floor' = f
             /\ destinations' = destinations \ {f}
             /\ up_requests' = IF going_direction = UP
                               THEN up_requests \ {f} ELSE up_requests
             /\ down_requests' = IF going_direction = DOWN
                                 THEN down_requests \ {f} ELSE down_requests
             /\ removed =>
                   /\ state' = "Loading"
                   /\ control_output' = <<StopMotor, DoorMotor(OPEN), SetTimer>>
             /\ ~removed =>
                   /\ state' = "Moving"
                   /\ control_output' = <<HoistMotor(going_direction')>>]_vars

\* the car going DOWN passed a floor whose up-request stays recorded
C14_Witness ==
    /\ event.type = "ReachedFloor"
    /\ err = "none"
    /\ state = "Moving"
    /\ old_direction = DOWN
    /\ current_floor \in up_requests
    /\ control_output = <<HoistMotor(going_direction)>>

----------------------------------------------------------------------------
\* _update_direction as a function of the elevator's data: the floor, the
\* direction and the three sets are drawn, and the direction is recomputed once.

UpdateDirectionCall ==
    [type |-> "UpdateDirection", floor |-> 0, direction |-> NONE]

InitDirection ==
    /\ state = "Loading"
    /\ current_floor \in Floors
    /\ going_direction \in Direction
    /\ destinations \in SUBSET Floors
    /\ up_requests \in SUBSET (MIN_FLOOR..(MAX_FLOOR - 1))
    /\ down_requests \in SUBSET ((MIN_FLOOR + 1)..MAX_FLOOR)
    /\ Cardinality(destinations) + Cardinality(up_requests)
           + Cardinality(down_requests) <= MaxPending
    /\ old_direction = NONE
    /\ event = NoEvent
    /\ control_output = <<>>
    /\ err = "none"
    /\ run_pos = -1
    /\ door = "open"
    /\ motor = "stopped"
    /\ search_start

UpdateDirection ==
    /\ event = NoEvent
    /\ \E e \in {update_direction(Elev)} :
          /\ going_direction' = e.going_direction
          /\ old_direction' = e.old_direction
    /\ event' = UpdateDirectionCall
    /\ UNCHANGED <<state, current_floor, destinations, up_requests, down_requests,
                   control_output, err, run_pos, door, motor,
                   to_check, seen, validated, skipped>>

SpecDirection == InitDirection /\ [][UpdateDirection]_vars

----------------------------------------------------------------------------
\* C16: in every reachable configuration every event the explorer enumerates
\* is handled without a fatal error (unsupported event, Idle's assertions,
\* receive_request's and reach_floor's assertions, the sink's assertions), and
\* so current_floor stays within [MIN_FLOOR, MAX_FLOOR].
C16_NoFatalError ==
    /\ err = "none"
    /\ \A ev \in explorer_events(Elev, TRUE) : Elevator_handle_event(Elev, ev).err = "none"
    /\ current_floor \in Floors

\* the car came up to the floor below the top and its next step, to MAX_FLOOR,
\* is among the events enumerated
C16_Witness ==
    /\ state = "Moving"
    /\ event = ReachedFloor(MAX_FLOOR - 1)
    /\ going_direction = UP
    /\ ReachedFloor(MAX_FLOOR) \in explorer_events(Elev, TRUE)

\* C17: in every reachable configuration going_direction is NONE if and only
\* if destinations, up_requests and down_requests are all empty.
C17_DirectionIffPending ==
    going_direction = NONE <=> Pending(Elev) = {}

\* the last recorded floor was served on arrival and the direction reset
C17_Witness ==
    /\ event.type = "ReachedFloor"
    /\ state = "Loading"
    /\ old_direction # NONE
    /\ going_direction = NONE
    /\ Pending(Elev) = {}

\* C18: a button event handled by a Moving car (DestinationFloorSelected(f) for
\* any f in range, f = current_floor included, or a legal RequestButtonPressed)
\* keeps the state Moving and current_floor and going_direction unchanged; only
\* the targeted set gains f, and the output is [HoistMotor(going_direction)].
C18_MovingButton ==
    [][(/\ state = "Moving"
        /\ event'.type \in {"DestinationFloorSelected", "RequestButtonPressed"}) =>
          LET f == event'.floor
              to_dest == event'.type = "DestinationFloorSelected"
              to_up == event'.type = "RequestButtonPressed" /\ event'.direction = UP
              to_down == event'.type = "RequestButtonPressed" /\ event'.direction = DOWN
          IN /\ err' = "none"
             /\ state' = "Moving"
             /\ current_floor' = current_floor
             /\ going_direction' = going_direction
             /\ destinations' = IF to_dest THEN destinations \cup {f} ELSE destinations
             /\ up_requests' = IF to_up THEN up_requests \cup {f} ELSE up_requests
             /\ down_requests' = IF to_down THEN down_requests \cup {f} ELSE down_requests
             /\ control_output' = <<HoistMotor(going_direction)>>]_vars

\* a moving car was given its own floor as a destination, and floors on both
\* sides of it are recorded
C18_Witness ==
    /\ state = "Moving"
    /\ event = DestinationFloorSelected(current_floor)
    /\ current_floor \in destinations
    /\ \E floor \in Pending(Elev) : floor < current_floor
    /\ \E floor \in Pending(Elev) : floor > current_floor
    /\ control_output = <<HoistMotor(going_direction)>>

\* C19: the DoorMotor commands alternate OPEN, CLOSE, OPEN, CLOSE, ...: OPEN is
\* emitted only with the door closed, CLOSE only after an OPEN since the last
\* CLOSE, and every entry into Loading from Idle or Moving opens the door.
C19_DoorAlternates ==
    [][LET commands == control_output'
       IN /\ \A i \in 1..Len(commands) :
                /\ commands[i] = DoorMotor(OPEN) =>
                      door_after(door, SubSeq(commands, 1, i - 1)) = "closed"
                /\ commands[i] = DoorMotor(CLOSE) =>
                      door_after(door, SubSeq(commands, 1, i - 1)) = "open"
          /\ (state \in {"Idle", "Moving"} /\ state' = "Loading") =>
                \E i \in 1..Len(commands) : commands[i] = DoorMotor(OPEN)]_vars

\* C20: door/hoist interlock over the ordered outputs: HoistMotor is never
\* emitted while the door is open, and DoorMotor(OPEN) never while the hoist
\* motor is running; so the motor never runs with the door open.
C20_Interlock ==
    [][LET commands == control_output'
       IN /\ \A i \in 1..Len(commands) :
                /\ commands[i][1] = "HoistMotor" =>
                      door_after(door, SubSeq(commands, 1, i - 1)) = "closed"
                /\ commands[i] = DoorMotor(OPEN) =>
                      motor_after(motor, SubSeq(commands, 1, i - 1)) = "stopped"
          /\ ~(motor' = "running" /\ door' = "open")]_vars

\* the car arrived, the motor was stopped and then the door opened
C20_Witness ==
    /\ event.type = "ReachedFloor"
    /\ state = "Loading"
    /\ control_output = <<StopMotor, DoorMotor(OPEN), SetTimer>>
    /\ door = "open"
    /\ motor = "stopped"


\* C23: ReachedFloor(f) delivered in Moving with f in range and not exactly
\* one floor from current_floor is rejected and leaves the configuration as
\* it was: state, current_floor, going_direction, destinations, up_requests
\* and down_requests are the same after the failed event as before it.
C23_RejectedReachedFloor ==
    [][(/\ state = "Moving"
        /\ event'.type = "ReachedFloor"
        /\ event'.floor \in Floors
        /\ event'.floor - current_floor \notin {1, -1}) =>
          /\ err' # "none"
          /\ UNCHANGED <<state, current_floor, going_direction, destinations,
                         up_requests, down_requests>>]_vars


----------------------------------------------------------------------------
\* Simulator.simulate: the breadth-first search over configurations

\* configurations recording more floors than this are not queued
MaxPendingSearch == 2

\* do_it() withholds TimerExpired at most this often in one search
MaxSkips == 1

\* Elevator.validate
validate(e) ==
    /\ ~(e.current_floor = MIN_FLOOR /\ e.going_direction = DOWN)
    /\ ~(e.current_floor = MAX_FLOOR /\ e.going_direction = UP)
    /\ ~(e.state = "Idle" /\ e.going_direction # NONE)

\* copy.deepcopy of the elevator whose configuration is c
deepcopy(c) ==
    [state |-> c.state, current_floor |-> c.current_floor,
     going_direction |-> c.going_direction, destinations |-> c.destinations,
     up_requests |-> c.up_requests, down_requests |-> c.down_requests,
     old_direction |-> NONE, control_output |-> <<>>, err |-> "none"]

\* the elements of a set in the order the loop over next_elevs meets them;
\* which configurations get queued does not depend on that order
RECURSIVE next_elevs_order(_)
next_elevs_order(S) ==
    IF S = {} THEN <<>>
    ELSE LET e == CHOOSE x \in S : TRUE
         IN <<e>> \o next_elevs_order(S \ {e})

within_search(c) ==
    Cardinality(c.destinations) + Cardinality(c.up_requests)
        + Cardinality(c.down_requests) <= MaxPendingSearch

\* one iteration of the while loop of simulate: popleft, validate,
\* get_next_elevator, and the queueing of the configurations not seen before.
\* An assertion or a RuntimeError ends the search where it stands.
simulate ==
    /\ err = "none"
    /\ to_check # <<>>
    /\ LET c == Head(to_check)
           elev == deepcopy(c)
       IN \E coin \in do_it :
             \* do_it() is called for a Loading elevator only
             /\ elev.state # "Loading" => coin
             /\ (elev.state = "Loading" /\ ~coin) => skipped < MaxSkips
             /\ LET results == {Elevator_handle_event(elev, ev) :
                                   ev \in explorer_events(elev, coin)}
                    raised == {r \in results : r.err # "none"}
                    next_elevs == {as_tuple(e) : e \in get_next_elevator(elev, coin)}
                    new == {e \in next_elevs \ seen : within_search(e)}
                    outcome ==
                        IF ~validate(elev) THEN "AssertionError: validate"
                        ELSE IF raised # {} THEN (CHOOSE r \in raised : TRUE).err
                        ELSE IF next_elevs = {} THEN "RuntimeError: Deadlock detected"
                        ELSE "none"
                IN /\ err' = outcome
                   /\ to_check' = IF outcome = "none"
                                  THEN Tail(to_check) \o next_elevs_order(new)
                                  ELSE Tail(to_check)
                   /\ seen' = IF outcome = "none" THEN seen \cup new ELSE seen
                   /\ validated' = IF validate(elev) THEN validated \cup {c}
                                   ELSE validated
             /\ skipped' = IF elev.state = "Loading" /\ ~coin
                           THEN skipped + 1 ELSE skipped
             /\ state' = c.state
             /\ current_floor' = c.current_floor
             /\ going_direction' = c.going_direction
             /\ destinations' = c.destinations
             /\ up_requests' = c.up_requests
             /\ down_requests' = c.down_requests
             /\ old_direction' = NONE
             /\ event' = NoEvent
             /\ control_output' = <<>>
             /\ run_pos' = -1
             /\ UNCHANGED <<door, motor>>

SpecSimulate == Init /\ [][simulate]_vars

\* the search has run to exhaustion
SearchDone == to_check = <<>> /\ err = "none"


\* C21: explorer completeness: TimerExpired is applied to every Loading
\* configuration the search visits, so when the search has run to exhaustion
\* the start and every successor, by any legal event (TimerExpired from
\* Loading included), of a visited configuration has been visited and
\* validated: everything reachable from the start has.
C21_SearchComplete ==
    SearchDone =>
        /\ as_tuple(deepcopy([state |-> "Idle", current_floor |-> 1,
                              going_direction |-> NONE, destinations |-> {},
                              up_requests |-> {}, down_requests |-> {}]))
              \in validated
        /\ \A c \in validated :
              \A e \in get_next_elevator(deepcopy(c), TRUE) :
                 within_search(as_tuple(e)) => as_tuple(e) \in validated

\* C22: each distinct configuration (state kind, current_floor,
\* going_direction, destinations, up_requests, down_requests) is taken off
\* the queue and expanded at most once, the start configuration included.
C22_ExpandedOnce ==
    [][(err = "none" /\ to_check # <<>>) => Head(to_check) \notin validated]_vars

====
